---------------------------- MODULE Spec2Model ----------------------------
(***************************************************************************)
(* A model of gta_sa_parser: the schema compiler                           *)
(* (SchemaParser.build_struct_from_schema), the codecs it builds out of    *)
(* the construct library (Struct, Array, GreedyRange, FormatField, Bytes,  *)
(* PaddedString, BytesInteger and the three adapters), the schema loader,  *)
(* the command line batch loop, the normalizer (to_serializable) and the   *)
(* choice of a parser for a file (find_parser_for_file).                   *)
(*                                                                         *)
(* Values are tagged records, one field name per Python type:              *)
(*   [i |-> n] int, [b |-> B] bool, [f |-> .., neg |-> B] float,           *)
(*   [s |-> <<..>>] str, [y |-> <<..>>] bytes, [l |-> <<..>>] list,        *)
(*   [c |-> <<..keys..>>, v |-> <<..values..>>] Container,                 *)
(*   [d |-> <<..keys..>>, w |-> <<..values..>>] plain dict,                *)
(*   [n |-> TRUE] None, [o |-> name] any other object.                     *)
(* A str is the sequence of its tokens: a token is "." or a piece of text  *)
(* without a dot, so that str.split(".") is computed and not assumed.      *)
(***************************************************************************)
EXTENDS Integers, Sequences, FiniteSets, TLC

\* ------------------------------------------------------------------ bounds
\* longest byte string fed to a decode
MaxLen == 3
\* widest bitfield, in bits, of the bitfield layouts
MaxBits == 8
\* most flags in a bitfield layout
MaxFlags == 2
\* most schema files in a schema directory
MaxSchemas == 3
\* most input files in one batch
MaxFiles == 3
\* most parsers handed to find_parser_for_file
MaxParsers == 2

\* --------------------------------------------------------------- helpers
Range(s) == {s[i] : i \in 1..Len(s)}

Pow2(n) == 2 ^ n

IsInt(x) == "i" \in DOMAIN x
IsBool(x) == "b" \in DOMAIN x
IsStr(x) == "s" \in DOMAIN x
IsFloat(x) == "f" \in DOMAIN x
IsContainer(x) == "c" \in DOMAIN x
IsDict(x) == "d" \in DOMAIN x
IsList(x) == "l" \in DOMAIN x

None == [n |-> TRUE]

\* dict.get(key, default)
Get(d, key, default) == IF key \in DOMAIN d THEN d[key] ELSE default

\* a raised exception and a returned value
Raise(exc, msg) == [ok |-> FALSE, exc |-> exc, msg |-> msg]
Return(x) == [ok |-> TRUE, con |-> x]

\* ------------------------------------------------------ primitive registry
TypeNames == {"char", "Int8ul", "Int16ul", "Int32ul", "Int64ul",
              "Int8sl", "Int16sl", "Int32sl", "Int64sl",
              "Float32l", "Float64l",
              "int8", "uint8", "int16", "uint16", "int32", "uint32"}

\* construct's FormatField behind each registry name: its length in bytes,
\* whether it is signed, whether it is a float (all little-endian; char is
\* construct.Byte, one unsigned byte)
FormatField(length, signed, float) ==
    [k |-> "FormatField", length |-> length, signed |-> signed, float |-> float]

TYPE_MAPPING(t) ==
    CASE t \in {"char", "Int8ul", "uint8"} -> FormatField(1, FALSE, FALSE)
      [] t \in {"Int16ul", "uint16"} -> FormatField(2, FALSE, FALSE)
      [] t \in {"Int32ul", "uint32"} -> FormatField(4, FALSE, FALSE)
      [] t = "Int64ul" -> FormatField(8, FALSE, FALSE)
      [] t \in {"Int8sl", "int8"} -> FormatField(1, TRUE, FALSE)
      [] t \in {"Int16sl", "int16"} -> FormatField(2, TRUE, FALSE)
      [] t \in {"Int32sl", "int32"} -> FormatField(4, TRUE, FALSE)
      [] t = "Int64sl" -> FormatField(8, TRUE, FALSE)
      [] t = "Float32l" -> FormatField(4, TRUE, TRUE)
      [] t = "Float64l" -> FormatField(8, TRUE, TRUE)

\* ------------------------------------------------------------ the compiler
\* path.split("."): the parts between the dots, each a sequence of tokens
RECURSIVE SplitFrom(_, _, _, _)
SplitFrom(path, i, cur, acc) ==
    IF i > Len(path) THEN Append(acc, cur)
    ELSE IF path[i] = "." THEN SplitFrom(path, i + 1, <<>>, Append(acc, cur))
    ELSE SplitFrom(path, i + 1, Append(cur, path[i]), acc)

\* _resolve_this_path keeps the parts; the resolver it returns is ResolvePath
resolve_this_path(path) == SplitFrom(path, 1, <<>>, <<>>)

\* sorted(..., key=bit): a stable insertion sort
RECURSIVE InsertByBit(_, _)
InsertByBit(sorted, f) ==
    IF sorted = <<>> THEN <<f>>
    ELSE IF Head(sorted).bit <= f.bit THEN <<Head(sorted)>> \o InsertByBit(Tail(sorted), f)
    ELSE <<f>> \o sorted

RECURSIVE SortByBit(_, _, _)
SortByBit(flags, i, acc) ==
    IF i > Len(flags) THEN acc
    ELSE SortByBit(flags, i + 1,
                   IF "bit" \in DOMAIN flags[i] THEN InsertByBit(acc, flags[i]) ELSE acc)

\* build_bitfield_struct: a BitFieldAdapter over BytesInteger(size_bytes)
build_bitfield_struct(schema) ==
    LET size_bits == Get(schema, "size", 16)
        size_bytes == (size_bits + 7) \div 8
    IN  Return([k |-> "BitField", size_bits |-> size_bits, size_bytes |-> size_bytes,
                bit_flags |-> SortByBit(Get(schema, "flags", <<>>), 1, <<>>)])

\* the bytes branch and the string branch of build_struct_from_schema
bytes_branch(schema) ==
    LET size == Get(schema, "size", 0)
    IN  IF size <= 0 THEN Raise("ValueError", <<"Bytes must have a positive 'size'">>)
        ELSE Return([k |-> "Bytes", size |-> size])

string_branch(schema) ==
    IF "length" \notin DOMAIN schema THEN Raise("ValueError", <<"String must have 'length'">>)
    ELSE Return([k |-> "PaddedString", length |-> schema.length,
                 encoding |-> Get(schema, "encoding", "ascii")])

\* the final else of build_struct_from_schema
unknown_type_anonymous(schema_type) == Raise("ValueError", <<"Unknown type in schema">>)
unknown_type(schema_type) == Raise("ValueError", <<"Unknown type in schema: ", schema_type>>)

\* the count / until_eof decision of the array branch, element already built
array_branch(schema, element_struct) ==
    IF "count" \in DOMAIN schema THEN
        LET count_expr == schema.count
        IN  IF IsInt(count_expr) \/ IsBool(count_expr)
            THEN Return([k |-> "Array", count |-> [const |-> count_expr],
                         subcon |-> element_struct])
            ELSE IF IsStr(count_expr)
            THEN Return([k |-> "Array", count |-> [path |-> resolve_this_path(count_expr.s)],
                         subcon |-> element_struct])
            ELSE Raise("ValueError", <<"Unsupported count type">>)
    ELSE IF Get(schema, "until_eof", FALSE)
    THEN Return([k |-> "GreedyRange", subcon |-> element_struct])
    ELSE Raise("ValueError", <<"Array must have 'count' or 'until_eof'">>)

\* fields[name] = ...: a dict keeps the place of a name's first assignment
DictSet(subcons, name, con) ==
    IF \E j \in 1..Len(subcons) : subcons[j].name = name
    THEN [j \in 1..Len(subcons) |->
            IF subcons[j].name = name THEN [name |-> name, con |-> con] ELSE subcons[j]]
    ELSE Append(subcons, [name |-> name, con |-> con])

RECURSIVE build_struct_from_schema(_), BuildFields(_, _, _)
BuildFields(fields, i, subcons) ==
    IF i > Len(fields) THEN Return([k |-> "Struct", subcons |-> subcons])
    ELSE IF "name" \notin DOMAIN fields[i] THEN Raise("KeyError", <<"name">>)
    ELSE LET r == build_struct_from_schema(fields[i])
         IN  IF ~r.ok THEN r
             ELSE BuildFields(fields, i + 1, DictSet(subcons, fields[i].name, r.con))

build_struct_from_schema(schema) ==
    LET schema_type == Get(schema, "type", "struct")
    IN  IF schema_type = "struct" THEN BuildFields(Get(schema, "fields", <<>>), 1, <<>>)
        ELSE IF schema_type = "array" THEN
            IF "elements" \notin DOMAIN schema THEN Raise("KeyError", <<"elements">>)
            ELSE LET element_struct == build_struct_from_schema(schema.elements)
                 IN  IF ~element_struct.ok THEN element_struct
                     ELSE array_branch(schema, element_struct.con)
        ELSE IF schema_type = "char" THEN
            Return([k |-> "BoolBit", subcon |-> TYPE_MAPPING("char"), bit_position |-> 0])
        ELSE IF schema_type = "bytes" THEN bytes_branch(schema)
        ELSE IF schema_type = "string" THEN string_branch(schema)
        ELSE IF schema_type = "bitfield" THEN build_bitfield_struct(schema)
        ELSE IF schema_type \in TypeNames THEN
            IF "scale" \in DOMAIN schema
            THEN Return([k |-> "Scale", subcon |-> TYPE_MAPPING(schema_type),
                         scale |-> schema.scale])
            ELSE Return(TYPE_MAPPING(schema_type))
        ELSE unknown_type(schema_type)

\* ------------------------------------------------- decode context, paths
\* One scope per open Struct (construct's context Container), innermost last;
\* stk[1] is the context parse_stream / build_stream start from.  A reference
\* to the scope at a level is the value [x |-> level].
Scope(names, parsing, index) ==
    [keys |-> <<>>, vals |-> <<>>, subcons |-> names, parsing |-> parsing, index |-> index]

TopContext(parsing) == <<Scope(<<>>, parsing, None)>>

IndexOf(keys, key) == CHOOSE j \in 1..Len(keys) : keys[j] = key

\* context[name] = value
ScopeSet(scope, name, value) ==
    IF name \in Range(scope.keys)
    THEN [scope EXCEPT !.vals[IndexOf(scope.keys, name)] = value]
    ELSE [scope EXCEPT !.keys = Append(@, name), !.vals = Append(@, value)]

SetTop(stk, scope) == [stk EXCEPT ![Len(stk)] = scope]

\* context._index = i
SetIndex(stk, i) == SetTop(stk, [stk[Len(stk)] EXCEPT !.index = [i |-> i]])

\* context[key] for the scope at a level: the fields decoded so far, then
\* the entries construct itself keeps in every context
ContextGetItem(stk, level, key) ==
    LET scope == stk[level]
    IN  IF key \in Range(scope.keys) THEN Return(scope.vals[IndexOf(scope.keys, key)])
        ELSE IF key = "_parsing" THEN Return([b |-> scope.parsing])
        ELSE IF key = "_building" THEN Return([b |-> ~scope.parsing])
        ELSE IF key = "_sizing" THEN Return([b |-> FALSE])
        ELSE IF key = "_params" THEN Return([x |-> 1])
        ELSE IF level = 1 THEN
            IF key = "_index" /\ scope.index # None THEN Return(scope.index)
            ELSE Raise("KeyError", <<key>>)
        ELSE IF key = "_" THEN Return([x |-> level - 1])
        ELSE IF key = "_root" THEN Return([x |-> 2])
        ELSE IF key = "_index" THEN Return(scope.index)
        ELSE IF key = "_io" THEN Return([o |-> "stream"])
        ELSE IF key = "_subcons" THEN Return([sc |-> level])
        ELSE Raise("KeyError", <<key>>)

\* operator.getitem(cur, part), part one of the parts of the split path
GetItem(stk, cur, part) ==
    IF Len(part) # 1 THEN
        IF \E t \in {"x", "c", "d", "sc"} : t \in DOMAIN cur
        THEN Raise("KeyError", part) ELSE Raise("TypeError", part)
    ELSE LET key == part[1]
         IN  IF "x" \in DOMAIN cur THEN ContextGetItem(stk, cur.x, key)
             ELSE IF IsContainer(cur) THEN
                 IF key \in Range(cur.c) THEN Return(cur.v[IndexOf(cur.c, key)])
                 ELSE IF key = "_io" THEN Return([o |-> "stream"])
                 ELSE Raise("KeyError", part)
             ELSE IF IsDict(cur) THEN
                 IF key \in Range(cur.d) THEN Return(cur.w[IndexOf(cur.d, key)])
                 ELSE Raise("KeyError", part)
             ELSE IF "sc" \in DOMAIN cur THEN
                 IF key \in Range(stk[cur.sc].subcons) THEN Return([o |-> "Construct"])
                 ELSE Raise("KeyError", part)
             ELSE Raise("TypeError", part)

\* resolver(ctx): reduce(operator.getitem, parts, ctx), ctx the context the
\* Array is parsed or built in
RECURSIVE Reduce(_, _, _, _)
Reduce(stk, cur, parts, i) ==
    IF i > Len(parts) THEN Return(cur)
    ELSE LET r == GetItem(stk, cur, parts[i])
         IN  IF ~r.ok THEN r ELSE Reduce(stk, r.con, parts, i + 1)

resolver_from_root(stk, parts) == Reduce(stk, [x |-> IF Len(stk) >= 2 THEN 2 ELSE 1], parts, 1)
resolver(stk, parts) == Reduce(stk, [x |-> Len(stk)], parts, 1)

\* Array's use of its count: "if not 0 <= count: raise RangeError", then
\* range(count)
CountCheck(count) ==
    IF IsInt(count) THEN
        IF count.i < 0 THEN Raise("RangeError", <<"invalid count">>) ELSE Return(count.i)
    ELSE IF IsBool(count) THEN Return(IF count.b THEN 1 ELSE 0)
    ELSE IF IsFloat(count) THEN
        IF count.neg THEN Raise("RangeError", <<"invalid count">>)
        ELSE Raise("TypeError", <<"range">>)
    ELSE Raise("TypeError", <<"0 <= count">>)

\* evaluate(self.count, context)
Evaluate(stk, count) ==
    IF "const" \in DOMAIN count THEN Return(count.const) ELSE resolver(stk, count.path)

EvalCount(stk, count) ==
    LET r == Evaluate(stk, count) IN IF ~r.ok THEN r ELSE CountCheck(r.con)

\* ------------------------------------------------------------ leaf codecs
\* a successful parse: the value, the stream position after it, the contexts
Parsed(val, pos, stk) == [ok |-> TRUE, val |-> val, pos |-> pos, stk |-> stk]
\* a successful build: the bytes written, the contexts
Built(out, stk) == [ok |-> TRUE, out |-> out, stk |-> stk]

\* data[pos+1 .. pos+n]; the stream position counts the bytes already read
Read(data, pos, n) == SubSeq(data, pos + 1, pos + n)

\* bytes read least significant first; with signed, in two's complement
RECURSIVE LittleEndian(_, _)
LittleEndian(bytes, signed) ==
    IF bytes = <<>> THEN 0
    ELSE IF Len(bytes) = 1 /\ signed /\ bytes[1] >= 128 THEN bytes[1] - 256
    ELSE Head(bytes) + 256 * LittleEndian(Tail(bytes), signed)

\* bytes read most significant first
RECURSIVE BigEndianFrom(_, _)
BigEndianFrom(bytes, acc) ==
    IF bytes = <<>> THEN acc ELSE BigEndianFrom(Tail(bytes), acc * 256 + Head(bytes))
BigEndian(bytes) == BigEndianFrom(bytes, 0)

\* n as length bytes, least significant first (two's complement below zero)
RECURSIVE ToLittleEndian(_, _)
ToLittleEndian(n, length) ==
    IF length <= 0 THEN <<>> ELSE <<n % 256>> \o ToLittleEndian(n \div 256, length - 1)

Reverse(seq) == [j \in 1..Len(seq) |-> seq[Len(seq) + 1 - j]]
\* n as length bytes, most significant first
ToBigEndian(n, length) == Reverse(ToLittleEndian(n, length))

\* whether n is in the range of an integer of length bytes
RECURSIVE Shift8(_, _)
Shift8(n, length) == IF length <= 0 THEN n ELSE Shift8(n \div 256, length - 1)
FitsIn(n, length, signed) ==
    IF signed THEN Shift8(n, length - 1) \in -128..127 ELSE Shift8(n, length) = 0

\* FormatField._parse: struct.unpack of length little-endian bytes (a float
\* is kept as the integer of its bits)
FormatFieldParse(con, data, pos, stk) ==
    IF pos + con.length > Len(data) THEN Raise("StreamError", <<"stream read less than specified amount">>)
    ELSE LET bytes == Read(data, pos, con.length)
         IN  IF con.float
             THEN Parsed([f |-> <<LittleEndian(bytes, FALSE)>>, ieee |-> TRUE,
                          neg |-> bytes[con.length] >= 128],
                         pos + con.length, stk)
             ELSE Parsed([i |-> LittleEndian(bytes, con.signed)], pos + con.length, stk)

\* FormatField._build: struct.pack, which takes a bool for an int
FormatFieldBuild(con, obj, stk) ==
    IF con.float THEN
        IF "ieee" \in DOMAIN obj THEN Built(ToLittleEndian(obj.f[1], con.length), stk)
        ELSE Raise("FormatFieldError", <<"struct.pack">>)
    ELSE IF ~(IsInt(obj) \/ IsBool(obj)) THEN Raise("FormatFieldError", <<"struct.pack">>)
    ELSE LET n == IF IsBool(obj) THEN (IF obj.b THEN 1 ELSE 0) ELSE obj.i
         IN  IF ~FitsIn(n, con.length, con.signed) THEN Raise("FormatFieldError", <<"struct.pack">>)
             ELSE Built(ToLittleEndian(n, con.length), stk)

\* bool(obj), Python's truth of a value
Truthy(obj) ==
    IF IsBool(obj) THEN obj.b
    ELSE IF IsInt(obj) THEN obj.i # 0
    ELSE IF IsFloat(obj) THEN obj.f[1] # 0
    ELSE IF IsStr(obj) THEN obj.s # <<>>
    ELSE IF "y" \in DOMAIN obj THEN obj.y # <<>>
    ELSE IF IsList(obj) THEN obj.l # <<>>
    ELSE IF IsContainer(obj) THEN obj.c # <<>>
    ELSE IF IsDict(obj) THEN obj.d # <<>>
    ELSE IF "n" \in DOMAIN obj THEN FALSE
    ELSE TRUE

\* BoolBitAdapter._decode and ._encode
BoolBitDecode(con, obj) == [b |-> (obj \div Pow2(con.bit_position)) % 2 = 1]
BoolBitEncode(con, obj) == (IF Truthy(obj) THEN 1 ELSE 0) * Pow2(con.bit_position)

\* ScaleAdapter._decode and ._encode, in exact arithmetic: obj / scale as the
\* fraction <<obj, scale>>, int(obj * scale) truncated toward zero
ScaleDecode(con, obj) == [f |-> <<obj, con.scale>>, neg |-> (obj < 0) # (con.scale < 0)]
Trunc(n, d) ==
    LET an == IF n < 0 THEN -n ELSE n
        ad == IF d < 0 THEN -d ELSE d
    IN  IF (n < 0) # (d < 0) THEN -(an \div ad) ELSE an \div ad
ScaleEncode(con, obj) ==
    IF IsFloat(obj) THEN Trunc(obj.f[1] * con.scale, obj.f[2])
    ELSE IF IsInt(obj) THEN obj.i * con.scale
    ELSE IF obj.b THEN con.scale ELSE 0

\* Bytes._parse and ._build
BytesParse(con, data, pos, stk) ==
    IF pos + con.size > Len(data) THEN Raise("StreamError", <<"stream read less than specified amount">>)
    ELSE Parsed([y |-> Read(data, pos, con.size)], pos + con.size, stk)
BytesBuild(con, obj, stk) ==
    IF "y" \notin DOMAIN obj THEN Raise("StreamError", <<"bytes object expected">>)
    ELSE IF Len(obj.y) # con.size THEN Raise("StreamError", <<"bytes object of wrong length">>)
    ELSE Built(obj.y, stk)

\* bytes.rstrip(b"\x00")
RECURSIVE RStripNull(_)
RStripNull(bytes) ==
    IF bytes # <<>> /\ bytes[Len(bytes)] = 0
    THEN RStripNull(SubSeq(bytes, 1, Len(bytes) - 1)) ELSE bytes

\* PaddedString: StringEncoded(FixedSized(length, NullStripped(GreedyBytes)), "ascii");
\* a decoded str is the sequence of its character codes
PaddedStringParse(con, data, pos, stk) ==
    IF con.length < 0 THEN Raise("PaddingError", <<"length cannot be negative">>)
    ELSE IF pos + con.length > Len(data) THEN Raise("StreamError", <<"stream read less than specified amount">>)
    ELSE LET stripped == RStripNull(Read(data, pos, con.length))
         IN  IF \E j \in 1..Len(stripped) : stripped[j] >= 128
             THEN Raise("UnicodeDecodeError", <<"ascii">>)
             ELSE Parsed([s |-> stripped], pos + con.length, stk)
PaddedStringBuild_nopad(con, obj, stk) ==
    IF ~IsStr(obj) THEN Raise("StringError", <<"string encoding failed, expected unicode string">>)
    ELSE IF Len(obj.s) > con.length THEN Raise("PaddingError", <<"subcon build more bytes than was allowed">>)
    ELSE Built(obj.s, stk)
PaddedStringBuild(con, obj, stk) ==
    IF ~IsStr(obj) THEN Raise("StringError", <<"string encoding failed, expected unicode string">>)
    ELSE IF \E j \in 1..Len(obj.s) : obj.s[j] >= 128 THEN Raise("UnicodeEncodeError", <<"ascii">>)
    ELSE IF con.length < 0 THEN Raise("PaddingError", <<"length cannot be negative">>)
    ELSE IF Len(obj.s) > con.length THEN Raise("PaddingError", <<"subcon build more bytes than was allowed">>)
    ELSE Built(obj.s \o [j \in 1..(con.length - Len(obj.s)) |-> 0], stk)

\* --------------------------------------------------------------- bitfields
\* a | b on naturals
RECURSIVE BitOr(_, _)
BitOr(a, b) ==
    IF a = 0 THEN b
    ELSE IF b = 0 THEN a
    ELSE (IF a % 2 = 1 \/ b % 2 = 1 THEN 1 ELSE 0) + 2 * BitOr(a \div 2, b \div 2)

\* keys and values of a Container or a plain dict
MapKeys(obj) == IF IsContainer(obj) THEN obj.c ELSE obj.d
MapVals(obj) == IF IsContainer(obj) THEN obj.v ELSE obj.w
IsMapping(obj) == IsContainer(obj) \/ IsDict(obj)
MapHas(obj, key) == key \in Range(MapKeys(obj))
MapGet(obj, key) == MapVals(obj)[IndexOf(MapKeys(obj), key)]

\* result[name] = value on a plain dict
DictPut(result, name, value) ==
    IF name \in Range(result.d)
    THEN [result EXCEPT !.w[IndexOf(result.d, name)] = value]
    ELSE [d |-> Append(result.d, name), w |-> Append(result.w, value)]

\* end - start for the i-th flag of the sorted bit_flags
FlagWidth_single(con, i) == 1
FlagWidth(con, i) ==
    (IF i + 1 <= Len(con.bit_flags) THEN con.bit_flags[i + 1].bit ELSE con.size_bits)
        - con.bit_flags[i].bit

\* one pass of the loop of BitFieldAdapter._decode
BitFieldExtract_noshift(value, start, width) ==
    IF width = 1 THEN [b |-> value % 2 = 1] ELSE [i |-> value % Pow2(width)]
BitFieldExtract(value, start, width) ==
    IF width = 1 THEN [b |-> (value \div Pow2(start)) % 2 = 1]
    ELSE [i |-> (value \div Pow2(start)) % Pow2(width)]

RECURSIVE BitFieldDecodeFrom(_, _, _, _)
BitFieldDecodeFrom(con, value, i, result) ==
    IF i > Len(con.bit_flags) THEN Return(result)
    ELSE LET f == con.bit_flags[i]
             width == FlagWidth(con, i)
         IN  IF f.bit < 0 \/ (width # 1 /\ width < 0)
             THEN Raise("ValueError", <<"negative shift count">>)
             ELSE BitFieldDecodeFrom(con, value, i + 1,
                      DictPut(result, f.name, BitFieldExtract(value, f.bit, width)))

\* BitFieldAdapter._decode
BitFieldDecode(con, value) == BitFieldDecodeFrom(con, value, 1, [d |-> <<>>, w |-> <<>>])

\* one pass of the loop of BitFieldAdapter._encode, for a name obj holds
BitFieldInsert(value, v, start, width) ==
    IF width = 1 THEN (IF Truthy(v) THEN BitOr(value, Pow2(start)) ELSE value)
    ELSE BitOr(value,
               ((IF IsBool(v) THEN (IF v.b THEN 1 ELSE 0) ELSE v.i) % Pow2(width)) * Pow2(start))

RECURSIVE BitFieldEncodeFrom(_, _, _, _)
BitFieldEncodeFrom(con, obj, i, value) ==
    IF i > Len(con.bit_flags) THEN Return(value)
    ELSE LET f == con.bit_flags[i]
             width == FlagWidth(con, i)
         IN  IF ~MapHas(obj, f.name) THEN BitFieldEncodeFrom(con, obj, i + 1, value)
             ELSE IF f.bit < 0 \/ (width # 1 /\ width < 0)
             THEN Raise("ValueError", <<"negative shift count">>)
             ELSE IF width # 1 /\ ~(IsInt(MapGet(obj, f.name)) \/ IsBool(MapGet(obj, f.name)))
             THEN Raise("TypeError", <<"unsupported operand type(s) for &">>)
             ELSE BitFieldEncodeFrom(con, obj, i + 1,
                      BitFieldInsert(value, MapGet(obj, f.name), f.bit, width))

\* BitFieldAdapter._encode
BitFieldEncode(con, obj) ==
    IF ~IsMapping(obj) THEN Raise("TypeError", <<"argument is not a mapping">>)
    ELSE BitFieldEncodeFrom(con, obj, 1, 0)

\* BytesInteger(size_bytes, swapped=False, signed=False): swapped=False is
\* construct's big-endian byte order
BytesIntegerValue(bytes) == BigEndian(bytes)

BytesIntegerParse(con, data, pos) ==
    IF con.size_bytes <= 0 THEN Raise("IntegerError", <<"length must be positive">>)
    ELSE IF pos + con.size_bytes > Len(data) THEN Raise("StreamError", <<"stream read less than specified amount">>)
    ELSE Return(BytesIntegerValue(Read(data, pos, con.size_bytes)))

BytesIntegerBuild(con, n) ==
    IF con.size_bytes <= 0 THEN Raise("IntegerError", <<"length must be positive">>)
    ELSE IF ~FitsIn(n, con.size_bytes, FALSE) THEN Raise("IntegerError", <<"int too big to convert">>)
    ELSE Return(ToBigEndian(n, con.size_bytes))

\* the adapter over its subcon: Adapter._parse and Adapter._build
BitFieldParse(con, data, pos, stk) ==
    LET r == BytesIntegerParse(con, data, pos)
    IN  IF ~r.ok THEN r
        ELSE LET dec == BitFieldDecode(con, r.con)
             IN  IF ~dec.ok THEN dec ELSE Parsed(dec.con, pos + con.size_bytes, stk)

BitFieldBuild(con, obj, stk) ==
    LET enc == BitFieldEncode(con, obj)
    IN  IF ~enc.ok THEN enc
        ELSE LET r == BytesIntegerBuild(con, enc.con)
             IN  IF ~r.ok THEN r ELSE Built(r.con, stk)

\* ------------------------------------------------------------- codec tree
\* obj[name] = value on a Container
ContainerPut(obj, name, value) ==
    IF name \in Range(obj.c)
    THEN [obj EXCEPT !.v[IndexOf(obj.c, name)] = value]
    ELSE [c |-> Append(obj.c, name), v |-> Append(obj.v, value)]

SubconNames(con) == [j \in 1..Len(con.subcons) |-> con.subcons[j].name]

\* the context a Struct opens below the current one
PushScope(stk, con) ==
    Append(stk, Scope(SubconNames(con), stk[Len(stk)].parsing, stk[Len(stk)].index))
PopScope(stk) == SubSeq(stk, 1, Len(stk) - 1)

\* GreedyRange: where the stream stands after the element that failed
GreedyRangeStop_noseek(fallback, data) == Len(data)
GreedyRangeStop(fallback, data) == fallback

RECURSIVE Parse(_, _, _, _), StructParse(_, _, _, _, _, _),
          ArrayParse(_, _, _, _, _, _, _), GreedyRangeParse(_, _, _, _, _, _)

\* Struct._parse, from the i-th subcon on; the Struct's own scope is on top
StructParse(con, data, pos, stk, i, obj) ==
    IF i > Len(con.subcons) THEN Parsed(obj, pos, PopScope(stk))
    ELSE LET sc == con.subcons[i]
             r == Parse(sc.con, data, pos, stk)
         IN  IF ~r.ok THEN r
             ELSE StructParse(con, data, r.pos,
                      SetTop(r.stk, ScopeSet(r.stk[Len(r.stk)], sc.name, r.val)),
                      i + 1, ContainerPut(obj, sc.name, r.val))

\* Array._parse, from element i on
ArrayParse(con, data, pos, stk, i, count, items) ==
    IF i >= count THEN Parsed([l |-> items], pos, stk)
    ELSE LET r == Parse(con.subcon, data, pos, SetIndex(stk, i))
         IN  IF ~r.ok THEN r
             ELSE ArrayParse(con, data, r.pos, r.stk, i + 1, count, Append(items, r.val))

\* GreedyRange._parse, from element i on: any exception ends the range and the
\* stream is put back where the failed element began; an element that reads
\* nothing never fails, and the loop runs until memory is exhausted
GreedyRangeParse(con, data, pos, stk, i, items) ==
    LET r == Parse(con.subcon, data, pos, SetIndex(stk, i))
    IN  IF ~r.ok THEN Parsed([l |-> items], GreedyRangeStop(pos, data), SetIndex(stk, i))
        ELSE IF r.pos = pos THEN Raise("MemoryError", <<"GreedyRange of an empty element">>)
        ELSE GreedyRangeParse(con, data, r.pos, r.stk, i + 1, Append(items, r.val))

\* con._parsereport(stream, context, path)
Parse(con, data, pos, stk) ==
    CASE con.k = "Struct" ->
            StructParse(con, data, pos, PushScope(stk, con), 1, [c |-> <<>>, v |-> <<>>])
      [] con.k = "Array" ->
            LET n == EvalCount(stk, con.count)
            IN  IF ~n.ok THEN n ELSE ArrayParse(con, data, pos, stk, 0, n.con, <<>>)
      [] con.k = "GreedyRange" -> GreedyRangeParse(con, data, pos, stk, 0, <<>>)
      [] con.k = "FormatField" -> FormatFieldParse(con, data, pos, stk)
      [] con.k = "BoolBit" ->
            LET r == FormatFieldParse(con.subcon, data, pos, stk)
            IN  IF ~r.ok THEN r ELSE Parsed(BoolBitDecode(con, r.val.i), r.pos, r.stk)
      [] con.k = "Scale" ->
            LET r == FormatFieldParse(con.subcon, data, pos, stk)
            IN  IF ~r.ok THEN r
                ELSE IF con.scale = 0 THEN Raise("ZeroDivisionError", <<"division by zero">>)
                ELSE Parsed(ScaleDecode(con, r.val.i), r.pos, r.stk)
      [] con.k = "Bytes" -> BytesParse(con, data, pos, stk)
      [] con.k = "PaddedString" -> PaddedStringParse(con, data, pos, stk)
      [] con.k = "BitField" -> BitFieldParse(con, data, pos, stk)

RECURSIVE Build(_, _, _), StructBuild(_, _, _, _, _), ListBuild(_, _, _, _, _)

\* context.update(obj), from the j-th key of obj on
RECURSIVE ScopeUpdate(_, _, _)
ScopeUpdate(scope, obj, j) ==
    IF j > Len(MapKeys(obj)) THEN scope
    ELSE ScopeUpdate(ScopeSet(scope, MapKeys(obj)[j], MapVals(obj)[j]), obj, j + 1)

\* Struct._build, from the i-th subcon on
StructBuild(con, obj, stk, i, out) ==
    IF i > Len(con.subcons) THEN Built(out, PopScope(stk))
    ELSE LET sc == con.subcons[i]
         IN  IF ~MapHas(obj, sc.name) THEN Raise("KeyError", <<sc.name>>)
             ELSE LET subobj == MapGet(obj, sc.name)
                      r == Build(sc.con, subobj,
                                 SetTop(stk, ScopeSet(stk[Len(stk)], sc.name, subobj)))
                  IN  IF ~r.ok THEN r
                      ELSE StructBuild(con, obj, r.stk, i + 1, out \o r.out)

\* the element loop of Array._build and GreedyRange._build
ListBuild(con, items, stk, i, out) ==
    IF i >= Len(items) THEN Built(out, stk)
    ELSE LET r == Build(con.subcon, items[i + 1], SetIndex(stk, i))
         IN  IF ~r.ok THEN r ELSE ListBuild(con, items, r.stk, i + 1, out \o r.out)

\* con._build(obj, stream, context, path)
Build(con, obj, stk) ==
    CASE con.k = "Struct" ->
            IF "n" \in DOMAIN obj
            THEN StructBuild(con, [c |-> <<>>, v |-> <<>>], PushScope(stk, con), 1, <<>>)
            ELSE IF ~IsMapping(obj) THEN Raise("TypeError", <<"context.update(obj)">>)
            ELSE LET pushed == PushScope(stk, con)
                 IN  StructBuild(con, obj,
                                 SetTop(pushed, ScopeUpdate(pushed[Len(pushed)], obj, 1)),
                                 1, <<>>)
      [] con.k = "Array" ->
            LET n == EvalCount(stk, con.count)
            IN  IF ~n.ok THEN n
                ELSE IF ~IsList(obj) THEN Raise("TypeError", <<"len(obj)">>)
                ELSE IF Len(obj.l) # n.con THEN Raise("RangeError", <<"expected count elements">>)
                ELSE ListBuild(con, obj.l, stk, 0, <<>>)
      [] con.k = "GreedyRange" ->
            IF ~IsList(obj) THEN Raise("TypeError", <<"enumerate(obj)">>)
            ELSE ListBuild(con, obj.l, stk, 0, <<>>)
      [] con.k = "FormatField" -> FormatFieldBuild(con, obj, stk)
      [] con.k = "BoolBit" -> FormatFieldBuild(con.subcon, [i |-> BoolBitEncode(con, obj)], stk)
      [] con.k = "Scale" ->
            IF ~(IsFloat(obj) \/ IsInt(obj) \/ IsBool(obj)) \/ "ieee" \in DOMAIN obj
            THEN Raise("TypeError", <<"int(obj * scale)">>)
            ELSE FormatFieldBuild(con.subcon, [i |-> ScaleEncode(con, obj)], stk)
      [] con.k = "Bytes" -> BytesBuild(con, obj, stk)
      [] con.k = "PaddedString" -> PaddedStringBuild(con, obj, stk)
      [] con.k = "BitField" -> BitFieldBuild(con, obj, stk)

\* struct.parse_stream(f) and struct.build(obj): a fresh top context per call
parse_stream(con, data) == Parse(con, data, 0, TopContext(TRUE))
build(con, obj) == Build(con, obj, TopContext(FALSE))

\* ---------------------------------------------------------------- inputs
\* the byte values the inputs are made of: null (the string pad), a set and a
\* clear boolean byte, a byte with bits above bit 0, a byte above 127
ByteVals == {0, 1, 2, 255}

RECURSIVE SeqsUpTo(_, _)
SeqsUpTo(S, n) ==
    IF n = 0 THEN {<<>>}
    ELSE LET shorter == SeqsUpTo(S, n - 1)
         IN  shorter \cup {Append(q, e) : q \in {t \in shorter : Len(t) = n - 1}, e \in S}

\* a str of one piece, and the dotted str a.b
Str1(a) == [s |-> <<a>>]
Str2(a, b) == [s |-> <<a, ".", b>>]

Field(name, type) == [name |-> name, type |-> type]
ArrayOf(name, elements, count) ==
    [name |-> name, type |-> "array", elements |-> elements, count |-> count]
UntilEof(name, elements) ==
    [name |-> name, type |-> "array", elements |-> elements, until_eof |-> TRUE]
StructOf(name, fields) == [name |-> name, type |-> "struct", fields |-> fields]
Top(fields) == [fields |-> fields]

\* the "structure" of the schema files the decodes run on
CodecSchemas == <<
    \* 1: the array counted by an earlier sibling, four-byte count
    Top(<<Field("num", "uint32"), ArrayOf("items", [type |-> "uint8"], Str1("num"))>>),
    \* 2: the same with a one-byte count
    Top(<<Field("num", "uint8"), ArrayOf("items", [type |-> "uint8"], Str1("num"))>>),
    \* 3: the count in a header struct, path header.count
    Top(<<StructOf("header", <<Field("count", "uint8")>>),
          ArrayOf("items", [type |-> "int8"], Str2("header", "count"))>>),
    \* 4: an array in a nested struct, counted by a field of the outer struct
    Top(<<Field("num", "uint8"),
          StructOf("body", <<ArrayOf("items", [type |-> "uint8"], Str1("num"))>>)>>),
    \* 5: the same where the nested struct has a field of that name too
    Top(<<Field("num", "uint8"),
          StructOf("body", <<Field("num", "uint8"),
                             ArrayOf("items", [type |-> "uint8"], Str1("num"))>>)>>),
    \* 6: the nested array reaching the outer field through the parent entry
    Top(<<Field("num", "uint8"),
          StructOf("body", <<ArrayOf("items", [type |-> "uint8"], Str2("_", "num"))>>)>>),
    \* 7: a count declared after the array
    Top(<<ArrayOf("items", [type |-> "uint8"], Str1("num")), Field("num", "uint8")>>),
    \* 8: a count that no field has
    Top(<<Field("num", "uint8"), ArrayOf("items", [type |-> "uint8"], Str1("total"))>>),
    \* 9: a count that is a boolean field
    Top(<<Field("flag", "char"), ArrayOf("items", [type |-> "uint8"], Str1("flag"))>>),
    \* 10: a count that is a string field
    Top(<<[name |-> "tag", type |-> "string", length |-> 1],
          ArrayOf("items", [type |-> "uint8"], Str1("tag"))>>),
    \* 11: a count that is a mapping
    Top(<<StructOf("header", <<Field("count", "uint8")>>),
          ArrayOf("items", [type |-> "uint8"], Str1("header"))>>),
    \* 12: a count that is a sequence
    Top(<<ArrayOf("list", [type |-> "uint8"], [i |-> 1]),
          ArrayOf("items", [type |-> "uint8"], Str1("list"))>>),
    \* 13: a count that is construct's own _parsing entry
    Top(<<ArrayOf("items", [type |-> "uint8"], Str1("_parsing"))>>),
    \* 14: until_eof of two-byte elements after a one-byte field
    Top(<<Field("kind", "int8"), UntilEof("rest", [type |-> "int16"])>>),
    \* 15: until_eof of one-byte elements as the whole structure
    [type |-> "array", elements |-> [type |-> "uint8"], until_eof |-> TRUE],
    \* 16: until_eof of two-byte structs as the whole structure
    [type |-> "array", until_eof |-> TRUE,
     elements |-> [type |-> "struct", fields |-> <<Field("x", "int8"), Field("y", "uint8")>>]],
    \* 17: a literal count, bytes and a string
    Top(<<ArrayOf("pair", [type |-> "int8"], [i |-> 2]),
          [name |-> "tag", type |-> "string", length |-> 1]>>),
    \* 18: bytes and string
    Top(<<[name |-> "blob", type |-> "bytes", size |-> 1],
          [name |-> "text", type |-> "string", length |-> 2]>>),
    \* 19: a char
    Top(<<Field("flag", "char"), Field("n", "uint16")>>),
    \* 20: a bitfield of one byte whose flags leave bits 0 and 1 unnamed
    Top(<<[name |-> "bits", type |-> "bitfield", size |-> 8,
           flags |-> <<[name |-> "hi", bit |-> 4], [name |-> "lo", bit |-> 2]>>]>>)
>>

\* the inputs of one schema: every byte string up to MaxLen, and for the
\* four-byte count the scenario's bytes, a shorter and a longer file
ScenarioData == {<<2, 0, 0, 0, 170, 187>>, <<2, 0, 0, 0, 170>>, <<1, 0, 0, 0, 7, 9>>,
                 <<0, 0, 0, 0>>}
Inputs(sid) == IF sid = 1 THEN ScenarioData ELSE SeqsUpTo(ByteVals, MaxLen)

\* ------------------------------------------------------------------ state
VARIABLES
    pc,        \* where the session of one SchemaParser stands
    schema,    \* self.schema["structure"]
    struct,    \* self.struct, or the exception its construction raised
    data,      \* the bytes of the file parse_file opens
    parsed,    \* what struct.parse_stream returned or raised
    tell,      \* the stream position parse_stream left
    obj,       \* a value handed to struct.build
    built,     \* what struct.build returned or raised
    schema_dir,  \* the *.json files of the schema directory, in glob order
    loaded,      \* how many of them the loop of the loader has visited
    parsers,     \* the SchemaParser instances collected so far
    warned,      \* the [WARN] lines printed: the file and the exception
    files_to_process,  \* the input files of the batch, in the order of the loop
    cursor,            \* how many of them the loop of main has taken
    processed_count,   \* main's counter
    output_dir,        \* the JSON file of each stem: absent, partial or complete
    printed,           \* the line main printed for each file it took
    reported,          \* the count of the last line main prints
    serializable,      \* what to_serializable returned for the decoded file
    find_parsers,      \* the parsers handed to find_parser_for_file: their schemas
    filename,          \* file_path.name
    found              \* what find_parser_for_file returned

codecVars == <<pc, schema, struct, data, parsed, tell, obj, built>>
loadVars == <<schema_dir, loaded, parsers, warned>>
cliVars == <<files_to_process, cursor, processed_count, output_dir, printed, reported>>
serialVars == <<serializable>>
findVars == <<find_parsers, filename, found>>
vars == <<codecVars, loadVars, cliVars, serialVars, findVars>>

Nothing == [none |-> TRUE]

\* a result without the contexts, which do not outlive the call
Outcome(r) ==
    IF ~r.ok THEN r
    ELSE IF "val" \in DOMAIN r THEN [ok |-> TRUE, val |-> r.val]
    ELSE [ok |-> TRUE, out |-> r.out]

\* SchemaParser.__init__: self.struct = build_struct_from_schema(...)
Construct ==
    /\ pc = "new"
    /\ struct' = build_struct_from_schema(schema)
    /\ pc' = IF struct'.ok THEN "ready" ELSE "failed"
    /\ UNCHANGED <<schema, data, parsed, tell, obj, built>>
    /\ UNCHANGED <<loadVars, cliVars, serialVars, findVars>>

\* SchemaParser.parse_file: self.struct.parse_stream(f)
ParseFile ==
    /\ pc = "ready"
    /\ obj = Nothing
    /\ LET r == parse_stream(struct.con, data)
       IN  /\ parsed' = Outcome(r)
           /\ tell' = IF r.ok THEN r.pos ELSE Nothing
    /\ pc' = "parsed"
    /\ UNCHANGED <<schema, struct, data, obj, built>>
    /\ UNCHANGED <<loadVars, cliVars, serialVars, findVars>>

\* the encode of what was decoded: self.struct.build(data)
BuildParsed ==
    /\ pc = "parsed"
    /\ parsed.ok
    /\ built' = Outcome(build(struct.con, parsed.val))
    /\ pc' = "built"
    /\ UNCHANGED <<schema, struct, data, parsed, tell, obj>>
    /\ UNCHANGED <<loadVars, cliVars, serialVars, findVars>>

\* the variables of a part of the program that a specification leaves out
CodecIdle ==
    /\ pc = "idle" /\ schema = Nothing /\ struct = Nothing /\ data = <<>>
    /\ parsed = Nothing /\ tell = Nothing /\ obj = Nothing /\ built = Nothing
LoadIdle ==
    /\ schema_dir = <<>> /\ loaded = 0 /\ parsers = <<>> /\ warned = <<>>

CliIdle ==
    /\ files_to_process = <<>> /\ cursor = 0 /\ processed_count = 0
    /\ output_dir = <<>> /\ printed = <<>> /\ reported = Nothing

SerialIdle == serializable = Nothing

FindIdle == find_parsers = <<>> /\ filename = <<>> /\ found = Nothing

InitCodec ==
    /\ pc = "new"
    /\ \E sid \in 1..Len(CodecSchemas) :
          /\ schema = CodecSchemas[sid]
          /\ data \in Inputs(sid)
    /\ struct = Nothing
    /\ parsed = Nothing
    /\ tell = Nothing
    /\ obj = Nothing
    /\ built = Nothing
    /\ LoadIdle /\ CliIdle /\ SerialIdle /\ FindIdle

NextCodec == Construct \/ ParseFile \/ BuildParsed

SpecCodec == InitCodec /\ [][NextCodec]_vars

\* ------------------------------------------------------- bitfield sessions
\* struct.build(obj) on a value that did not come from a decode
BuildValue ==
    /\ pc = "ready"
    /\ obj # Nothing
    /\ built' = Outcome(build(struct.con, obj))
    /\ pc' = "encoded"
    /\ UNCHANGED <<schema, struct, data, parsed, tell, obj>>
    /\ UNCHANGED <<loadVars, cliVars, serialVars, findVars>>

\* struct.parse(...) of the bytes just built
ParseBuilt ==
    /\ pc = "encoded"
    /\ built.ok
    /\ LET r == parse_stream(struct.con, built.out)
       IN  /\ parsed' = Outcome(r)
           /\ tell' = IF r.ok THEN r.pos ELSE Nothing
    /\ pc' = "reparsed"
    /\ UNCHANGED <<schema, struct, data, obj, built>>
    /\ UNCHANGED <<loadVars, cliVars, serialVars, findVars>>

\* the names of the flags of a layout, by their place in the "flags" list
FlagNames == <<"a", "b", "c", "d", "e">>

\* the size build_bitfield_struct takes when the schema gives none
DefaultSize == 16

\* the bitfield schemas: every size up to MaxBits and the default size, every
\* list of up to MaxFlags flags with start bits up to the size, in any order
FlagLists(size) ==
    UNION {[1..n -> 0..size] : n \in 0..MaxFlags}
Flags(bits) == [j \in 1..Len(bits) |-> [name |-> FlagNames[j], bit |-> bits[j]]]
BitfieldSchemas ==
    UNION {{[type |-> "bitfield", size |-> size, flags |-> Flags(bits)] :
               bits \in FlagLists(size)} : size \in 1..MaxBits}
    \cup {[type |-> "bitfield", flags |-> Flags(bits)] : bits \in FlagLists(DefaultSize)}
    \cup {[type |-> "bitfield", size |-> 8,
           flags |-> <<[name |-> "a", bit |-> 0], [name |-> "b", bit |-> 1],
                       [name |-> "c", bit |-> 3]>>]}

SizeBits(layout) == Get(layout, "size", DefaultSize)

\* the bytes a bitfield is decoded from: all bits clear, 0b00001011, the top
\* bit alone, all bits set
BitBytes == {0, 11, 128, 255}

\* The width the documentation of the layout gives the j-th flag of the list:
\* up to the next start bit above its own, or to the size; of flags with one
\* start bit all but the last of the list are empty.
DocWidth(layout, j) ==
    LET flags == layout.flags
        s == flags[j].bit
        above == {flags[m].bit : m \in {m \in 1..Len(flags) : flags[m].bit > s}}
    IN  IF \E m \in (j + 1)..Len(flags) : flags[m].bit = s THEN 0
        ELSE IF above = {} THEN SizeBits(layout) - s
        ELSE (CHOOSE x \in above : \A y \in above : x <= y) - s

\* the values within a width: booleans for 1, else integers below 2^width
WidthValues(w) ==
    IF w = 1 THEN {[b |-> FALSE], [b |-> TRUE]}
    ELSE IF w = 0 THEN {[i |-> 0]}
    ELSE {[i |-> 0], [i |-> 1], [i |-> Pow2(w) - 2], [i |-> Pow2(w) - 1]}

\* the mappings that give every flag of a layout a value within its width
Mappings(layout) ==
    LET n == Len(layout.flags)
        names == [j \in 1..n |-> layout.flags[j].name]
    IN  {[d |-> names, w |-> vals] :
            vals \in {f \in [1..n -> UNION {WidthValues(w) : w \in 0..SizeBits(layout)}] :
                         \A j \in 1..n : f[j] \in WidthValues(DocWidth(layout, j))}}

InitBitfield ==
    /\ pc = "new"
    /\ schema \in BitfieldSchemas
    /\ \/ /\ obj = Nothing
          /\ data \in [1..((SizeBits(schema) + 7) \div 8) -> BitBytes]
       \/ /\ obj \in Mappings(schema)
          /\ data = <<>>
    /\ struct = Nothing
    /\ parsed = Nothing
    /\ tell = Nothing
    /\ built = Nothing
    /\ LoadIdle /\ CliIdle /\ SerialIdle /\ FindIdle

NextBitfield == Construct \/ ParseFile \/ BuildValue \/ ParseBuilt

SpecBitfield == InitBitfield /\ [][NextBitfield]_vars

\* ------------------------------------------------------------ normalizing
\* k.startswith("_"), on the key names the schemas of the model use
UnderscoreNames == {"_io", "_pad", "_res", "_x"}
startswith_underscore(k) == k \in UnderscoreNames

\* bytes.hex(): two digits a byte, a str of one token per digit
HexDigits == <<"0", "1", "2", "3", "4", "5", "6", "7",
               "8", "9", "a", "b", "c", "d", "e", "f">>
RECURSIVE Hex(_)
Hex(bytes) ==
    IF bytes = <<>> THEN <<>>
    ELSE <<HexDigits[(Head(bytes) \div 16) + 1], HexDigits[(Head(bytes) % 16) + 1]>>
            \o Hex(Tail(bytes))

\* container_to_dict of to_serializable; DictItems is one dict comprehension
\* over the first n items, dropping the underscore keys when drop is set
RECURSIVE container_to_dict(_), DictItems(_, _, _, _)
DictItems(keys, vals, drop, n) ==
    IF n = 0 THEN [d |-> <<>>, w |-> <<>>]
    ELSE LET r == DictItems(keys, vals, drop, n - 1)
         IN  IF drop /\ startswith_underscore(keys[n]) THEN r
             ELSE [d |-> Append(r.d, keys[n]),
                   w |-> Append(r.w, container_to_dict(vals[n]))]
container_to_dict(container) ==
    IF IsContainer(container)
    THEN DictItems(container.c, container.v, TRUE, Len(container.c))
    ELSE IF IsDict(container)
    THEN DictItems(container.d, container.w, FALSE, Len(container.d))
    ELSE IF IsList(container)
    THEN [l |-> [j \in 1..Len(container.l) |-> container_to_dict(container.l[j])]]
    ELSE IF "y" \in DOMAIN container THEN [s |-> Hex(container.y)]
    ELSE IF IsInt(container) \/ IsFloat(container) \/ IsStr(container)
            \/ IsBool(container) \/ container = None
    THEN container
    ELSE [s |-> <<"str">>]

\* what parse_file returns, and to_serializable of it
parse_file_result(name, val) ==
    [d |-> <<"filename", "schema", "data">>, w |-> <<Str1("file"), name, val>>]
to_serializable(result) ==
    [d |-> <<"filename", "schema", "data">>,
     w |-> <<MapGet(result, "filename"), MapGet(result, "schema"),
             container_to_dict(MapGet(result, "data"))>>]

\* file_parser.to_serializable(parsed_data) after a decode; the Container of
\* the outermost Struct carries the stream under "_io"
WithIo(val) ==
    IF IsContainer(val)
    THEN [c |-> <<"_io">> \o val.c, v |-> <<[o |-> "BufferedReader"]>> \o val.v]
    ELSE val

ToSerializable ==
    /\ pc = "parsed"
    /\ parsed.ok
    /\ serializable' = to_serializable(parse_file_result(None, WithIo(parsed.val)))
    /\ pc' = "serialized"
    /\ UNCHANGED <<schema, struct, data, parsed, tell, obj, built>>
    /\ UNCHANGED <<loadVars, cliVars, findVars>>

\* the schemas normalized: underscore names among struct fields and among
\* bitfield flags, at the top and below structs and arrays
Bitfield8(name, flags) == [name |-> name, type |-> "bitfield", size |-> 8, flags |-> flags]
SerialSchemas == <<
    \* 1: a struct with an underscore field
    Top(<<Field("_pad", "uint8"), Field("id", "uint8")>>),
    \* 2: a bitfield as the whole structure, one flag with an underscore name
    [type |-> "bitfield", size |-> 8,
     flags |-> <<[name |-> "_res", bit |-> 0], [name |-> "on", bit |-> 1]>>],
    \* 3: a bitfield below a struct, the underscore flag in the middle
    Top(<<Bitfield8("flags", <<[name |-> "on", bit |-> 0], [name |-> "_res", bit |-> 1],
                               [name |-> "kind", bit |-> 4]>>),
          Field("id", "uint8")>>),
    \* 4: an array of structs, each with an underscore field and a bitfield
    Top(<<ArrayOf("items",
                   [type |-> "struct",
                    fields |-> <<Field("_x", "uint8"),
                                 Bitfield8("f", <<[name |-> "_res", bit |-> 0],
                                                  [name |-> "v", bit |-> 4]>>)>>],
                   [i |-> 1])>>),
    \* 5: bytes, a string and a char
    Top(<<[name |-> "raw", type |-> "bytes", size |-> 1],
          [name |-> "text", type |-> "string", length |-> 1],
          Field("flag", "char")>>),
    \* 6: an until_eof array of bitfields without underscore names
    [type |-> "array", until_eof |-> TRUE,
     elements |-> [type |-> "bitfield", size |-> 8,
                   flags |-> <<[name |-> "lo", bit |-> 0], [name |-> "hi", bit |-> 4]>>]]
>>

InitSerialize ==
    /\ pc = "new"
    /\ schema \in Range(SerialSchemas)
    /\ data \in SeqsUpTo(ByteVals, MaxLen)
    /\ struct = Nothing
    /\ parsed = Nothing
    /\ tell = Nothing
    /\ obj = Nothing
    /\ built = Nothing
    /\ serializable = Nothing
    /\ LoadIdle /\ CliIdle /\ FindIdle

NextSerialize == Construct \/ ParseFile \/ ToSerializable

SpecSerialize == InitSerialize /\ [][NextSerialize]_vars

\* -------------------------------------------------------- choosing a parser
\* File names and patterns are sequences of characters, so that equality,
\* lower() and fnmatch are computed on them.
NameChars == {"a", "A"}
WildChars == {"*", "?"}

\* str.lower()
LowerChar(c) == IF c = "A" THEN "a" ELSE c
Lower(str) == [j \in 1..Len(str) |-> LowerChar(str[j])]

\* fnmatch.fnmatch(filename, pattern) where file names are case-sensitive:
\* "*" stands for any run of characters, "?" for any one
RECURSIVE fnmatch(_, _)
fnmatch(name, pattern) ==
    IF pattern = <<>> THEN name = <<>>
    ELSE IF Head(pattern) = "*"
    THEN \/ fnmatch(name, Tail(pattern))
         \/ name # <<>> /\ fnmatch(Tail(name), pattern)
    ELSE /\ name # <<>>
         /\ Head(pattern) = "?" \/ Head(pattern) = Head(name)
         /\ fnmatch(Tail(name), Tail(pattern))

\* SchemaParser.file_pattern: "pattern" or "file_pattern" or "*", an empty
\* str being false
file_pattern(parser_schema) ==
    IF Get(parser_schema, "pattern", <<>>) # <<>> THEN parser_schema.pattern
    ELSE IF Get(parser_schema, "file_pattern", <<>>) # <<>> THEN parser_schema.file_pattern
    ELSE <<"*">>

\* the body of the loop of find_parser_for_file: does it return this parser
ReturnsParser(pattern, name) ==
    IF pattern = name THEN TRUE
    ELSE IF \E j \in 1..Len(pattern) : pattern[j] \in WildChars
    THEN fnmatch(name, pattern)
    ELSE Lower(name) = Lower(pattern)

\* find_parser_for_file: the index of the parser returned, or None
RECURSIVE FindFrom(_, _, _)
FindFrom(parser_list, name, j) ==
    IF j > Len(parser_list) THEN None
    ELSE IF ReturnsParser(file_pattern(parser_list[j]), name) THEN [parser |-> j]
    ELSE FindFrom(parser_list, name, j + 1)
find_parser_for_file(parser_list, name) ==
    IF parser_list = <<>> THEN None ELSE FindFrom(parser_list, name, 1)

\* the patterns and the file names: every sequence of up to two characters
Strings(chars) ==
    {<<>>} \cup {<<c>> : c \in chars} \cup {<<c, e>> : c \in chars, e \in chars}
Patterns == Strings(NameChars \cup WildChars)
FileNames == Strings(NameChars) \ {<<>>}
ParserSchemas ==
    {[pattern |-> p] : p \in Patterns}
    \cup {[file_pattern |-> <<"a", "*">>],
          [pattern |-> <<>>, file_pattern |-> <<"A">>],
          [name |-> "nodes"]}

FindParser ==
    /\ found = Nothing
    /\ filename # <<>>
    /\ found' = [ret |-> find_parser_for_file(find_parsers, filename)]
    /\ UNCHANGED <<find_parsers, filename>>
    /\ UNCHANGED <<codecVars, loadVars, cliVars, serialVars>>

InitFind ==
    /\ \E n \in 0..MaxParsers : find_parsers \in [1..n -> ParserSchemas]
    /\ filename \in FileNames
    /\ found = Nothing
    /\ CodecIdle /\ LoadIdle /\ CliIdle /\ serializable = Nothing

NextFind == FindParser

SpecFind == InitFind /\ [][NextFind]_vars

\* ------------------------------------------------------------- the loader
\* the schema files of the directories: each a JSON object with "structure"
LoadSchemas == <<
    \* 1: a struct of two integers
    [structure |-> Top(<<Field("x", "int16"), Field("y", "uint8")>>)],
    \* 2: a field of the unknown type foo
    [structure |-> Top(<<Field("x", "uint8"), Field("y", "foo")>>)],
    \* 3: an array whose elements are of the unknown type bar
    [structure |-> Top(<<ArrayOf("items", [type |-> "bar"], [i |-> 2])>>)],
    \* 4: an array with neither count nor until_eof
    [structure |-> Top(<<[name |-> "items", type |-> "array", elements |-> [type |-> "uint8"]]>>)],
    \* 5: an array with a count and until_eof: true
    [structure |-> Top(<<[name |-> "items", type |-> "array", elements |-> [type |-> "uint8"],
                          count |-> [i |-> 2], until_eof |-> TRUE]>>)],
    \* 6: an array with a path count, until_eof: false
    [structure |-> Top(<<Field("n", "uint8"),
                         [name |-> "items", type |-> "array", elements |-> [type |-> "uint8"],
                          count |-> Str1("n"), until_eof |-> FALSE]>>)],
    \* 7: an until_eof array
    [structure |-> Top(<<UntilEof("items", [type |-> "uint8"])>>)],
    \* 8: an array whose count is a float
    [structure |-> Top(<<ArrayOf("items", [type |-> "uint8"], [f |-> <<5, 2>>, neg |-> FALSE])>>)],
    \* 9: bytes without a size
    [structure |-> Top(<<[name |-> "blob", type |-> "bytes"]>>)],
    \* 10: bytes of size 0
    [structure |-> Top(<<[name |-> "blob", type |-> "bytes", size |-> 0]>>)],
    \* 11: bytes of size -1 in a nested struct
    [structure |-> Top(<<StructOf("in", <<[name |-> "blob", type |-> "bytes", size |-> -1]>>)>>)],
    \* 12: bytes of size 2 and a string of length 3
    [structure |-> Top(<<[name |-> "blob", type |-> "bytes", size |-> 2],
                         [name |-> "text", type |-> "string", length |-> 3]>>)],
    \* 13: a string without a length
    [structure |-> Top(<<[name |-> "text", type |-> "string"]>>)],
    \* 14: a string of length 0
    [structure |-> Top(<<[name |-> "text", type |-> "string", length |-> 0]>>)],
    \* 15: a string of length -1
    [structure |-> Top(<<[name |-> "text", type |-> "string", length |-> -1]>>)],
    \* 16: a file without "structure"
    [name |-> "nodes"]
>>

\* SchemaParser(schema_file): self.schema["structure"], then the compile
SchemaParser(file) ==
    IF "structure" \notin DOMAIN file THEN Raise("KeyError", <<"structure">>)
    ELSE LET r == build_struct_from_schema(file.structure)
         IN  IF ~r.ok THEN r ELSE Return([schema |-> file, struct |-> r.con])

\* what an iteration of the loop does with the exception of a schema: the
\* except clause prints and goes on to the next file
LoadStep(n) == n + 1

\* one iteration of the loop of load_parsers_from_schemas: a parser appended
LoadSchema ==
    /\ loaded < Len(schema_dir)
    /\ LET r == SchemaParser(schema_dir[loaded + 1])
       IN  /\ r.ok
           /\ parsers' = Append(parsers, r.con)
    /\ loaded' = loaded + 1
    /\ UNCHANGED <<schema_dir, warned>>
    /\ UNCHANGED <<codecVars, cliVars, serialVars, findVars>>

\* one iteration of the loop: the exception caught, the warning printed
SkipSchema ==
    /\ loaded < Len(schema_dir)
    /\ LET r == SchemaParser(schema_dir[loaded + 1])
       IN  /\ ~r.ok
           /\ warned' = Append(warned, [file |-> loaded + 1, exc |-> r.exc, msg |-> r.msg])
    /\ loaded' = LoadStep(loaded)
    /\ UNCHANGED <<schema_dir, parsers>>
    /\ UNCHANGED <<codecVars, cliVars, serialVars, findVars>>

InitLoad ==
    /\ \E n \in 0..MaxSchemas : schema_dir \in [1..n -> Range(LoadSchemas)]
    /\ loaded = 0
    /\ parsers = <<>>
    /\ warned = <<>>
    /\ CodecIdle /\ CliIdle /\ SerialIdle /\ FindIdle

NextLoad == LoadSchema \/ SkipSchema

SpecLoad == InitLoad /\ [][NextLoad]_vars

\* ----------------------------------------------------------- the batch loop
\* the stems of the input files; two files of one directory can share one
Stems == {"NODES0", "trains"}

\* the parser find_parser_for_file returns for the files that have one
CliParser == SchemaParser([name |-> "nodes", structure |-> CodecSchemas[2]]).con

\* an input file: its stem, whether a parser matches it, its bytes, and what
\* the file system does when its JSON is saved: "ok", "open" (open() raises)
\* or "dump" (json.dump raises after open() created the file)
InputFiles ==
    [stem : Stems, matched : {FALSE}, data : {<<>>}, io : {"ok"}]
    \cup [stem : Stems, matched : {TRUE}, data : {<<>>, <<2, 1>>}, io : {"ok"}]
    \cup [stem : Stems, matched : {TRUE}, data : {<<1, 255>>}, io : {"ok", "open", "dump"}]

CurrentFile == files_to_process[cursor + 1]

\* file_parser.parse_file(file_path)
parse_file(file) == parse_stream(CliParser.struct, file.data)

\* save_json: open(filename, 'w') creates or empties the file, json.dump
\* writes it, the with block closes it; what is left of the file
save_json(io, before) ==
    CASE io = "ok" -> "complete"
      [] io = "open" -> before
      [] io = "dump" -> "partial"

\* an iteration for a file no parser matches: the continue
NoParser ==
    /\ cursor < Len(files_to_process)
    /\ ~CurrentFile.matched
    /\ printed' = Append(printed, "No parser found")
    /\ cursor' = cursor + 1
    /\ UNCHANGED <<files_to_process, processed_count, output_dir, reported>>
    /\ UNCHANGED <<codecVars, loadVars, serialVars, findVars>>

\* an iteration whose parse_file raises: the except clause
ParseFailed ==
    /\ cursor < Len(files_to_process)
    /\ CurrentFile.matched
    /\ ~parse_file(CurrentFile).ok
    /\ printed' = Append(printed, "Error processing")
    /\ cursor' = cursor + 1
    /\ UNCHANGED <<files_to_process, processed_count, output_dir, reported>>
    /\ UNCHANGED <<codecVars, loadVars, serialVars, findVars>>

\* an iteration whose save_json raises: the except clause
SaveFailed ==
    /\ cursor < Len(files_to_process)
    /\ CurrentFile.matched
    /\ parse_file(CurrentFile).ok
    /\ CurrentFile.io # "ok"
    /\ output_dir' = [output_dir EXCEPT ![CurrentFile.stem] = save_json(CurrentFile.io, @)]
    /\ printed' = Append(printed, "Error processing")
    /\ cursor' = cursor + 1
    /\ UNCHANGED <<files_to_process, processed_count, reported>>
    /\ UNCHANGED <<codecVars, loadVars, serialVars, findVars>>

\* an iteration that reaches processed_count += 1
Saved ==
    /\ cursor < Len(files_to_process)
    /\ CurrentFile.matched
    /\ parse_file(CurrentFile).ok
    /\ CurrentFile.io = "ok"
    /\ output_dir' = [output_dir EXCEPT ![CurrentFile.stem] = save_json(CurrentFile.io, @)]
    /\ printed' = Append(printed, "Saved JSON")
    /\ processed_count' = processed_count + 1
    /\ cursor' = cursor + 1
    /\ UNCHANGED <<files_to_process, reported>>
    /\ UNCHANGED <<codecVars, loadVars, serialVars, findVars>>

\* after the loop: print(f"Processing complete! Processed {processed_count} files.")
Report ==
    /\ cursor = Len(files_to_process)
    /\ reported = Nothing
    /\ reported' = [count |-> processed_count]
    /\ UNCHANGED <<files_to_process, cursor, processed_count, output_dir, printed>>
    /\ UNCHANGED <<codecVars, loadVars, serialVars, findVars>>

InitCli ==
    /\ \E n \in 1..MaxFiles : files_to_process \in [1..n -> InputFiles]
    /\ cursor = 0
    /\ processed_count = 0
    /\ output_dir = [stem \in Stems |-> "absent"]
    /\ printed = <<>>
    /\ reported = Nothing
    /\ CodecIdle /\ LoadIdle /\ SerialIdle /\ FindIdle

NextCli == NoParser \/ ParseFailed \/ SaveFailed \/ Saved \/ Report

SpecCli == InitCli /\ [][NextCli]_vars

Spec == SpecCodec

\* ------------------------------------------------- reading a decoded result
\* The value a path names once the decode is over: anc are the Containers
\* of the structs enclosing the array, outermost first; cur is [a |-> k]
\* for the k-th of them or a value below one.  Nothing when a part names no
\* field.
RECURSIVE Named(_, _, _, _)
Named(anc, cur, parts, i) ==
    IF i > Len(parts) THEN cur
    ELSE IF Len(parts[i]) # 1 THEN Nothing
    ELSE LET key == parts[i][1]
             at == IF "a" \in DOMAIN cur
                   THEN (IF cur.a < 1 THEN Nothing ELSE anc[cur.a]) ELSE cur
         IN  IF "a" \in DOMAIN cur /\ key = "_" /\ cur.a > 1
             THEN Named(anc, [a |-> cur.a - 1], parts, i + 1)
             ELSE IF "a" \in DOMAIN cur /\ key = "_root" /\ cur.a >= 1
             THEN Named(anc, [a |-> 1], parts, i + 1)
             ELSE IF IsMapping(at) /\ MapHas(at, key)
             THEN Named(anc, MapGet(at, key), parts, i + 1)
             ELSE Nothing

\* what a count and the number of decoded elements must be to each other:
\*   "outer"  the integer the path names from the outermost struct
\*   "inner"  the integer (a bool being the integer 1 or 0) the path names
\*            from the struct enclosing the array, when it names a field
\*   "int"    the path names an integer field from the enclosing struct
CountMatches(mode, anc, parts, n) ==
    LET from == IF mode = "outer" THEN (IF anc = <<>> THEN 0 ELSE 1) ELSE Len(anc)
        v == Named(anc, [a |-> from], parts, 1)
    IN  CASE mode = "outer" -> v = [i |-> n]
          [] mode = "inner" ->
                v = Nothing \/ v = [i |-> n] \/ (IsBool(v) /\ n = IF v.b THEN 1 ELSE 0)
          [] mode = "int" -> v = [i |-> n]

\* CountMatches at every array of the decoded value that has a path count
RECURSIVE CountsAgree(_, _, _, _)
CountsAgree(mode, con, val, anc) ==
    CASE con.k = "Struct" ->
            \A j \in 1..Len(con.subcons) :
                CountsAgree(mode, con.subcons[j].con, MapGet(val, con.subcons[j].name),
                            Append(anc, val))
      [] con.k = "Array" ->
            /\ "path" \in DOMAIN con.count =>
                   CountMatches(mode, anc, con.count.path, Len(val.l))
            /\ \A e \in 1..Len(val.l) : CountsAgree(mode, con.subcon, val.l[e], anc)
      [] con.k = "GreedyRange" ->
            \A e \in 1..Len(val.l) : CountsAgree(mode, con.subcon, val.l[e], anc)
      [] OTHER -> TRUE

\* the bytes a codec of fixed size reads
RECURSIVE Sizeof(_), SizeofSubcons(_, _)
SizeofSubcons(subcons, n) ==
    IF n = 0 THEN 0 ELSE SizeofSubcons(subcons, n - 1) + Sizeof(subcons[n].con)
Sizeof(con) ==
    CASE con.k = "Struct" -> SizeofSubcons(con.subcons, Len(con.subcons))
      [] con.k = "FormatField" -> con.length
      [] con.k \in {"BoolBit", "Scale"} -> con.subcon.length
      [] con.k = "Bytes" -> con.size
      [] con.k = "PaddedString" -> con.length
      [] con.k = "BitField" -> con.size_bytes

\* an until_eof array that is the whole structure or its last field
EndsGreedy(con) ==
    \/ con.k = "GreedyRange"
    \/ con.k = "Struct" /\ con.subcons # <<>>
       /\ con.subcons[Len(con.subcons)].con.k = "GreedyRange"
GreedyElement(con) ==
    IF con.k = "GreedyRange" THEN con.subcon ELSE con.subcons[Len(con.subcons)].con.subcon
GreedyPrefix(con) ==
    IF con.k = "GreedyRange" THEN 0 ELSE SizeofSubcons(con.subcons, Len(con.subcons) - 1)
GreedyItems(con, val) ==
    IF con.k = "GreedyRange" THEN val.l ELSE val.v[Len(val.v)].l

\* a node whose decode does not keep every bit it read
RECURSIVE HasLossyNode(_)
HasLossyNode(con) ==
    CASE con.k = "Struct" -> \E j \in 1..Len(con.subcons) : HasLossyNode(con.subcons[j].con)
      [] con.k \in {"Array", "GreedyRange"} -> HasLossyNode(con.subcon)
      [] con.k \in {"BoolBit", "BitField", "Scale"} -> TRUE
      [] con.k = "FormatField" -> con.float
      [] OTHER -> FALSE

Decoded == pc \in {"parsed", "built"} /\ parsed.ok

\* ------------------------------------------------------------------ claims
\* C1 as stated: for every non-scaled schema and every byte string that
\* decodes without error, encoding the decoded value gives back the bytes.
C1_RoundTripAnyInput ==
    (pc = "built" /\ tell = Len(data)) => built.ok /\ built.out = data

\* C1, amended: the round trip is byte-exact when the schema has no char and
\* no bitfield node, every path count names an integer field, and the decode
\* consumed the whole byte string.
C1_RoundTripLossless ==
    (/\ pc = "built"
     /\ tell = Len(data)
     /\ ~HasLossyNode(struct.con)
     /\ CountsAgree("int", struct.con, parsed.val, <<>>))
        => built.ok /\ built.out = data

\* C1 witness: bytes and a null-padded string decoded and encoded back
C1_Witness ==
    /\ pc = "built"
    /\ schema = CodecSchemas[18]
    /\ data = <<255, 1, 0>>
    /\ built.ok /\ built.out = data

\* C3 as stated: the number of elements of a path-counted array is the
\* integer the path names from the outermost open struct, at any depth; the
\* scenario {num, items} on 02 00 00 00 AA BB gives {num: 2, items: [170, 187]}.
C3_CountFromOutermost ==
    /\ Decoded => CountsAgree("outer", struct.con, parsed.val, <<>>)
    /\ (pc = "parsed" /\ schema = CodecSchemas[1] /\ data = <<2, 0, 0, 0, 170, 187>>)
          => parsed = [ok |-> TRUE,
                       val |-> [c |-> <<"num", "items">>,
                                v |-> <<[i |-> 2], [l |-> <<[i |-> 170], [i |-> 187]>>]>>]]

\* C3, amended: the path is indexed from the scope of the struct that
\* encloses the array (its parent is the entry "_"), so an array in a
\* nested struct is counted by the nested struct's own field, and a path
\* that only the outer struct has fails; the scenario holds as stated.
C3_CountFromEnclosing ==
    /\ Decoded => CountsAgree("inner", struct.con, parsed.val, <<>>)
    /\ (pc = "parsed" /\ schema = CodecSchemas[4]) => ~parsed.ok
    /\ (pc = "parsed" /\ schema = CodecSchemas[1] /\ data = <<2, 0, 0, 0, 170, 187>>)
          => parsed = [ok |-> TRUE,
                       val |-> [c |-> <<"num", "items">>,
                                v |-> <<[i |-> 2], [l |-> <<[i |-> 170], [i |-> 187]>>]>>]]

\* C3 witness: outer num 0, nested num 1, one element decoded
C3_Witness ==
    /\ pc = "parsed"
    /\ schema = CodecSchemas[5]
    /\ data = <<0, 1, 255>>
    /\ parsed.ok
    /\ parsed.val.v[2] = [c |-> <<"num", "items">>, v |-> <<[i |-> 1], [l |-> <<[i |-> 255]>>]>>]

\* C4 as stated: a path count that is absent, declared after the array, or
\* not a number (boolean, string, mapping, sequence) always ends the decode
\* in an error; so a decode that succeeds counted every array by an integer.
C4_BadCountFails ==
    /\ (pc = "parsed" /\ schema \in {CodecSchemas[7], CodecSchemas[8]}) => ~parsed.ok
    /\ Decoded => CountsAgree("int", struct.con, parsed.val, <<>>)

KnownKinds == {"struct", "array", "char", "bytes", "string", "bitfield"} \cup TypeNames

\* the type strings of a schema tree that are no node kind and no registry name
RECURSIVE UnknownTypes(_), UnknownTypesOfFields(_, _)
UnknownTypesOfFields(fields, n) ==
    IF n = 0 THEN {} ELSE UnknownTypesOfFields(fields, n - 1) \cup UnknownTypes(fields[n])
UnknownTypes(node) ==
    LET t == Get(node, "type", "struct")
    IN  IF t = "struct"
        THEN UnknownTypesOfFields(Get(node, "fields", <<>>), Len(Get(node, "fields", <<>>)))
        ELSE IF t = "array" THEN UnknownTypes(node.elements)
        ELSE IF t \in KnownKinds THEN {} ELSE {t}

\* the count strategies an array node specifies: a literal integer count, a
\* path-reference count, until_eof: true
Strategies(node) ==
    (IF "count" \in DOMAIN node /\ IsInt(node.count) THEN {"literal"} ELSE {})
    \cup (IF "count" \in DOMAIN node /\ IsStr(node.count) THEN {"path"} ELSE {})
    \cup (IF Get(node, "until_eof", FALSE) THEN {"until_eof"} ELSE {})

\* every array node of a schema tree specifies exactly one strategy
RECURSIVE OneStrategyEach(_)
OneStrategyEach(node) ==
    LET t == Get(node, "type", "struct")
    IN  IF t = "struct"
        THEN \A j \in 1..Len(Get(node, "fields", <<>>)) : OneStrategyEach(node.fields[j])
        ELSE IF t = "array"
        THEN Cardinality(Strategies(node)) = 1 /\ OneStrategyEach(node.elements)
        ELSE TRUE

\* every Bytes and PaddedString of a codec tree has a size above zero
RECURSIVE SizesPositive(_)
SizesPositive(con) ==
    CASE con.k = "Struct" -> \A j \in 1..Len(con.subcons) : SizesPositive(con.subcons[j].con)
      [] con.k \in {"Array", "GreedyRange"} -> SizesPositive(con.subcon)
      [] con.k = "Bytes" -> con.size > 0
      [] con.k = "PaddedString" -> con.length > 0
      [] OTHER -> TRUE

\* the parsers of the files, in order, whose SchemaParser(...) raises nothing
RECURSIVE Loadable(_, _)
Loadable(files, n) ==
    IF n = 0 THEN <<>>
    ELSE LET r == SchemaParser(files[n])
         IN  IF r.ok THEN Append(Loadable(files, n - 1), r.con) ELSE Loadable(files, n - 1)

\* C6 as stated: an array schema compiles only if it specifies exactly one
\* of literal count, path count and until_eof; with none or with both a count
\* and until_eof: true it is rejected.
C6_ExactlyOneStrategy ==
    \A j \in 1..Len(parsers) : OneStrategyEach(parsers[j].schema.structure)

\* C8: a schema with a type string that is no node kind and no registry name
\* is rejected with an error whose message contains that string, and the
\* loader returns a parser for every schema of the directory that compiles,
\* wherever the failing ones stand.
C8_UnknownTypeNamed ==
    /\ \A j \in 1..Len(warned) :
          LET file == schema_dir[warned[j].file]
          IN  ("structure" \in DOMAIN file /\ UnknownTypes(file.structure) # {})
                 => /\ warned[j].exc = "ValueError"
                    /\ \E t \in UnknownTypes(file.structure) : t \in Range(warned[j].msg)
    /\ \A j \in 1..Len(parsers) : UnknownTypes(parsers[j].schema.structure) = {}
    /\ loaded = Len(schema_dir) => parsers = Loadable(schema_dir, Len(schema_dir))

\* C8 witness: foo rejected first, bar rejected last, the valid schema
\* between them loaded
C8_Witness ==
    /\ schema_dir = <<LoadSchemas[2], LoadSchemas[1], LoadSchemas[3]>>
    /\ loaded = 3
    /\ Len(parsers) = 1 /\ parsers[1].schema = LoadSchemas[1]
    /\ Len(warned) = 2 /\ "foo" \in Range(warned[1].msg) /\ "bar" \in Range(warned[2].msg)

\* C9 as stated: bytes without a positive size and strings without a
\* positive length are rejected; no compiled codec holds a Bytes.size or a
\* FixedString.length that is not above zero.
C9_PositiveSizes ==
    \A j \in 1..Len(parsers) : SizesPositive(parsers[j].struct)

\* ------------------------------------------------------------ the batch loop
\* the files of the batch that reached "Saved JSON"
SavedFiles == {j \in 1..Len(printed) : printed[j] = "Saved JSON"}

\* C7 as stated: whatever files fail, every file after a failing one is
\* still taken, no output file is created or left behind for a failing
\* file, and the count reported is the number of files whose output was
\* written completely.
C7_FailuresLeaveNoOutput ==
    reported # Nothing =>
        /\ Len(printed) = Len(files_to_process)
        /\ reported.count = Cardinality(SavedFiles)
        /\ \A stem \in Stems :
              IF \E j \in SavedFiles : files_to_process[j].stem = stem
              THEN output_dir[stem] = "complete"
              ELSE output_dir[stem] = "absent"
\* ------------------------------------------------------------ bitfield claims
\* two mappings with the same keys and the same value under every key
MapEq(m1, m2) ==
    /\ IsMapping(m1) /\ IsMapping(m2)
    /\ Range(MapKeys(m1)) = Range(MapKeys(m2))
    /\ \A key \in Range(MapKeys(m1)) : MapGet(m1, key) = MapGet(m2, key)

\* C2: for every bitfield layout and every mapping that gives each flag a value
\* within its width, the mapping encodes without error and decoding the
\* encoded bytes returns the same mapping.
C2_DecodeEncode ==
    (pc \in {"encoded", "reparsed"} /\ schema.type = "bitfield") =>
        /\ built.ok
        /\ pc = "reparsed" => parsed.ok /\ MapEq(parsed.val, obj)

\* a default (16 bit) layout listed out of order, one boolean flag and one
\* 15 bit flag, encoded to the two bytes FF FD and decoded back
C2_Witness ==
    /\ pc = "reparsed"
    /\ schema = [type |-> "bitfield",
                 flags |-> <<[name |-> "a", bit |-> 1], [name |-> "b", bit |-> 0]>>]
    /\ obj = [d |-> <<"a", "b">>, w |-> <<[i |-> 32766], [b |-> TRUE]>>]
    /\ built.ok /\ built.out = <<255, 253>>
    /\ parsed.ok /\ MapEq(parsed.val, obj)

\* the value the documentation gives the j-th flag, of the bytes read as an
\* unsigned little-endian integer
DocField(layout, bytes, j) ==
    LET v == LittleEndian(bytes, FALSE)
        s == layout.flags[j].bit
        w == DocWidth(layout, j)
    IN  IF w = 1 THEN [b |-> (v \div Pow2(s)) % 2 = 1]
        ELSE [i |-> (v \div Pow2(s)) % Pow2(w)]

\* C10: a bitfield decode reads ceil(size / 8) bytes and returns for every flag
\* of width w >= 1 at start bit s the value (v >> s) mod 2^w, v being the
\* bytes read as an unsigned little-endian integer.
C10_LittleEndianFields ==
    (pc = "parsed" /\ schema.type = "bitfield") =>
        /\ parsed.ok
        /\ tell = (SizeBits(schema) + 7) \div 8
        /\ \A j \in 1..Len(schema.flags) :
              DocWidth(schema, j) >= 1 =>
                  /\ MapHas(parsed.val, schema.flags[j].name)
                  /\ MapGet(parsed.val, schema.flags[j].name)
                        = DocField(schema, SubSeq(data, 1, tell), j)

\* the layout of the documented scenario: 8 bits, a at bit 0, b at bit 1, c at
\* bit 3
ScenarioLayout ==
    [type |-> "bitfield", size |-> 8,
     flags |-> <<[name |-> "a", bit |-> 0], [name |-> "b", bit |-> 1],
                 [name |-> "c", bit |-> 3]>>]

\* C11 as stated: the byte 0b00001011 decodes under the scenario layout to
\* {a: true, b: true, c: 1}, a and b booleans and c an integer.
C11_ScenarioAsStated ==
    (pc = "parsed" /\ schema = ScenarioLayout /\ data = <<11>>) =>
        parsed = [ok |-> TRUE,
                  val |-> [d |-> <<"a", "b", "c">>,
                           w |-> <<[b |-> TRUE], [b |-> TRUE], [i |-> 1]>>]]

\* C11, amended: b reaches from bit 1 to bit 3, two bits wide, so it decodes
\* to the integer 1; the byte decodes to {a: true, b: 1, c: 1}, a a boolean,
\* b and c integers, in that order, and the one byte is consumed.
C11_ScenarioDecoded ==
    (pc = "parsed" /\ schema = ScenarioLayout /\ data = <<11>>) =>
        /\ parsed = [ok |-> TRUE,
                     val |-> [d |-> <<"a", "b", "c">>,
                              w |-> <<[b |-> TRUE], [i |-> 1], [i |-> 1]>>]]
        /\ tell = 1

\* C11 witness: the scenario decoded, b an integer
C11_Witness ==
    /\ pc = "parsed"
    /\ schema = ScenarioLayout
    /\ data = <<11>>
    /\ parsed.ok
    /\ MapGet(parsed.val, "a") = [b |-> TRUE]
    /\ IsInt(MapGet(parsed.val, "b"))
    /\ MapGet(parsed.val, "c") = [i |-> 1]

\* ---------------------------------------------------------- normalizing claim
\* the keys of a mapping that are not reserved, in their order
Kept(keys) == SelectSeq(keys, LAMBDA k : ~startswith_underscore(k))

\* out is in without its reserved keys: every mapping of in, at any depth,
\* appears in out with its other keys in the same order, sequences keep
\* their length
RECURSIVE DropsReserved(_, _)
DropsReserved(in, out) ==
    IF IsMapping(in)
    THEN /\ IsDict(out)
         /\ out.d = Kept(MapKeys(in))
         /\ \A j \in 1..Len(out.d) : DropsReserved(MapGet(in, out.d[j]), out.w[j])
    ELSE IF IsList(in)
    THEN /\ IsList(out)
         /\ Len(out.l) = Len(in.l)
         /\ \A j \in 1..Len(in.l) : DropsReserved(in.l[j], out.l[j])
    ELSE TRUE

\* C12 as stated: normalizing a decoded value drops every underscore key from
\* every mapping at every depth, the mappings of bitfield decodes included,
\* and keeps the other keys in their order.
C12_NoReservedKeys ==
    pc = "serialized" =>
        DropsReserved(WithIo(parsed.val), MapGet(serializable, "data"))

\* --------------------------------------------------------- choosing, claim
\* the parsers of the list that match the file name in each of the three ways
ExactMatches ==
    {j \in 1..Len(find_parsers) : file_pattern(find_parsers[j]) = filename}
WildcardMatches ==
    {j \in 1..Len(find_parsers) :
        LET pattern == file_pattern(find_parsers[j])
        IN  /\ \E m \in 1..Len(pattern) : pattern[m] \in WildChars
            /\ fnmatch(filename, pattern)}
CaseInsensitiveMatches ==
    {j \in 1..Len(find_parsers) :
        Lower(file_pattern(find_parsers[j])) = Lower(filename)}

\* C13 as stated: the parser returned is an exact match when the list has
\* one, else a wildcard match when it has one, else a case-insensitive
\* match, whatever the order of the list; None only when nothing matches.
C13_SelectsByPriority ==
    found # Nothing =>
        IF ExactMatches # {} THEN found.ret \in {[parser |-> j] : j \in ExactMatches}
        ELSE IF WildcardMatches # {}
        THEN found.ret \in {[parser |-> j] : j \in WildcardMatches}
        ELSE IF CaseInsensitiveMatches # {}
        THEN found.ret \in {[parser |-> j] : j \in CaseInsensitiveMatches}
        ELSE found.ret = None

============================================================================
